---- MODULE Spec2Model ----
(***************************************************************************)
(* Model of youtube_tts_bot.py: main() resolves the live chat of a video,  *)
(* then polls get_chat_messages() forever, speaking the messages of the    *)
(* allowed authors and remembering the ids it has processed.               *)
(*                                                                         *)
(* Program state: last_message_id, processed_messages, response, the       *)
(* position of the for loop (idx) and of main (pc).  The remaining         *)
(* variables are history variables that record what the program did (the   *)
(* speech calls, the transport calls, the time slept), so that properties  *)
(* of runs can be stated as state predicates.                              *)
(***************************************************************************)
EXTENDS Integers, Sequences, FiniteSets, TLC

\* ------------------------------------------------------------------ bounds
\* Longest batch ('items' list) the transport returns in the model.
MaxBatch == 2
\* Most consecutive failed fetches before the transport answers again.
MaxFails == 3

\* ------------------------------------------------------- program constants
\* time.sleep(5), lines 240 and 247
SleepInterval == 5
\* allowed_authors = ["Fay Boyd"], line 219
allowed_authors == {"Fay Boyd"}

\* Python's None (an absent token, a failed fetch, an absent dict key)
None == "None"

\* ---------------------------------------------------------- the environment
\* Page tokens the server can hand out.
Tokens == {"t1", "t2"}
\* pollingIntervalMillis of a response in time units; 0 = not supplied.
Hints == {0, 3, 7}

\* The chat messages of the stream.  m3's author differs from the allowed
\* name only by case; m4 is an item without authorDetails (a deleted-message
\* tombstone), on which line 224 raises KeyError.  Any other Exception of
\* lines 222-234 (a print that cannot encode the text) acts the same way: it
\* is raised before speak_message and before line 236.
Messages ==
  { [id |-> "m1", author |-> "Fay Boyd", text |-> "hi",  wellFormed |-> TRUE],
    [id |-> "m2", author |-> "Fay Boyd", text |-> "yo",  wellFormed |-> TRUE],
    [id |-> "m3", author |-> "fay boyd", text |-> "hey", wellFormed |-> TRUE],
    [id |-> "m4", author |-> None,       text |-> None,  wellFormed |-> FALSE] }

Ids == { m.id : m \in Messages }

\* Every 'items' list of at most MaxBatch messages, in any order, repeats
\* (re-deliveries) included.
Batches == UNION { [1..n -> Messages] : n \in 0..MaxBatch }

\* What videos().list(...).execute() can answer for the video id.
VideoResponses ==
  { [items |-> 0, liveStreamingDetails |-> FALSE, activeLiveChatId |-> FALSE],
    [items |-> 1, liveStreamingDetails |-> FALSE, activeLiveChatId |-> FALSE],
    [items |-> 1, liveStreamingDetails |-> TRUE,  activeLiveChatId |-> FALSE],
    [items |-> 1, liveStreamingDetails |-> TRUE,  activeLiveChatId |-> TRUE] }

\* What liveChatMessages().list(...).execute() can do: raise (a transient
\* service error, or the error that reports the chat as ended) or answer with
\* a dict that may or may not carry 'items', 'nextPageToken' and the hint.
NoResponse ==
  [ok |-> FALSE, hasItems |-> FALSE, items |-> << >>, nextPageToken |-> None,
   hint |-> 0]

DictResponses ==
  { [ok |-> TRUE, hasItems |-> TRUE, items |-> b, nextPageToken |-> t, hint |-> h] :
      b \in Batches, t \in Tokens \cup {None}, h \in Hints }
  \cup
  { [ok |-> TRUE, hasItems |-> FALSE, items |-> << >>, nextPageToken |-> t,
     hint |-> h] : t \in Tokens \cup {None}, h \in Hints }

TransportOutcomes == {"ok", "transient", "ended"}

\* What the speech backend can do inside speak_message: speak, or raise
\* (no 'say' binary, a pyttsx3 failure).
SinkResults == {"ok", "error"}

VARIABLES
  pc,                  \* where main() is
  last_message_id,     \* line 210
  processed_messages,  \* line 211
  response,            \* line 218
  idx,                 \* position of the for loop of line 221 in 'items'
  spoken,              \* history: the speak_message calls, in order
  exitStatus,          \* status of the process once pc = "done"; -1 before
  stopReason,          \* why the process ended
  resolveResult,       \* history: what get_live_chat_id returned or raised
  interruptAt,         \* history: where main() was when Ctrl+C arrived
  called,              \* history: the transport has been called
  sentToken,           \* history: pageToken of this cycle's transport call
  seenAtFetch,         \* history: processed_messages at this cycle's call
  spokenAtFetch,       \* history: Len(spoken) at this cycle's call
  lastFetch,           \* history: outcome of the last transport call
  fails,               \* history: consecutive failed fetches
  slept,               \* history: time slept since the last transport call
  hint,                \* history: interval hint of the last transport call
  lastNext             \* history: nextPageToken of the last completed batch

vars ==
  << pc, last_message_id, processed_messages, response, idx, spoken,
     exitStatus, stopReason, resolveResult, interruptAt, called, sentToken,
     seenAtFetch, spokenAtFetch, lastFetch, fails, slept, hint, lastNext >>

progVars ==
  << last_message_id, processed_messages, response, idx >>

histVars ==
  << spoken, resolveResult, interruptAt, called, sentToken, seenAtFetch,
     spokenAtFetch, lastFetch, fails, slept, hint, lastNext >>

\* --------------------------------------------------------- pure functions

\* get_live_chat_id, lines 65-92: the live chat id, or the error it raises.
get_live_chat_id(v) ==
  IF v.items = 0 THEN "NotFound"
  ELSE IF ~v.liveStreamingDetails THEN "NotLive"
  ELSE IF ~v.activeLiveChatId THEN "ChatNotActive"
  ELSE "chat"

ResolveErrors == {"NotFound", "NotLive", "ChatNotActive"}

\* get_chat_messages, lines 94-110: every Exception of the request becomes
\* None; otherwise the response is returned as it came.
get_chat_messages(outcome, r) ==
  IF outcome = "ok" THEN r ELSE NoResponse

\* A request built without the token.
PageToken_Dropped(t) == None

\* line 102: the pageToken parameter is set only for a truthy token
PageToken(t) == IF t # None THEN t ELSE None

\* A test of line 220 that only asks for a response.
HasItems_AnyResponse(r) == r.ok

\* line 220: response and 'items' in response
HasItems(r) == r.ok /\ r.hasItems

\* A comparison of the names that ignores case.
IsAllowed_IgnoreCase(author) == author \in {"Fay Boyd", "fay boyd"}

\* lines 226, 230: author == 'Fay Boyd' and author in allowed_authors,
\* or author in allowed_authors
IsAllowed(author) ==
  (author = "Fay Boyd" /\ author \in allowed_authors) \/ author \in allowed_authors

\* A loop that speaks the display name as it came.
Label_NoAlias(author) == author

\* lines 226-227: the allowed author "Fay Boyd" is renamed "Fay"
Label(author) ==
  IF author = "Fay Boyd" /\ author \in allowed_authors THEN "Fay" ELSE author

\* lines 229, 232: f"{author} says: {message}"
Utterance(m) == Label(m.author) \o " says: " \o m.text

\* A lookup under a key the response does not have.
NextToken_WrongKey(r) == None

\* line 238: response.get('nextPageToken')
NextToken(r) == r.nextPageToken

\* A line 236 that was lost.
AddSeen_Nothing(S, id) == S

\* line 236: processed_messages.add(message_id)
AddSeen(S, id) == S \cup {id}

\* A loop that walks the batch from its end.
ItemAt_Reversed(items, i) == items[Len(items) - i + 1]

\* line 221: for item in response.get('items', []), the i-th item visited
ItemAt(items, i) == items[i]

\* A loop that forgot the membership test of line 223.
Seen_Never(id, S) == FALSE

\* line 223: message_id not in processed_messages
Seen(id, S) == id \in S

\* A handler of line 206 that does not return.
AfterResolve_Continue(res) == "fetch"

\* lines 203-208: main goes on to the loop with the chat id, and returns when
\* get_live_chat_id raised
AfterResolve(res) == IF res \in ResolveErrors THEN "done" ELSE "fetch"

\* A loop that breaks when the transport reports the chat as ended.
AfterFetch_StopOnEnded(outcome, r) ==
  IF outcome = "ended" THEN "done"
  ELSE IF r.ok /\ r.hasItems THEN "loop" ELSE "sleep"

\* lines 218-240: with a response that has 'items' main runs the for loop,
\* with any other (None included) it goes straight to the sleep of line 240
AfterFetch(outcome, r) == IF HasItems(r) THEN "loop" ELSE "sleep"

\* An assignment of line 238 made for every response, None read as "no token".
TokenAfterNoItems_Reset(tok, r) == r.nextPageToken

\* lines 220-238: without 'items' last_message_id is not assigned
TokenAfterNoItems(tok, r) == tok

\* A sleep that honours the interval the server asked for.
SleepTime_Hint(h) == IF h > SleepInterval THEN h ELSE SleepInterval

\* line 240: time.sleep(5), whatever the response said
SleepTime(h) == SleepInterval

\* A main that ends with sys.exit(1).
ReturnStatus_Error == 0 + 1

\* lines 197, 208, 244, 250: main returns and the interpreter exits with 0
ReturnStatus == 0

\* A KeyboardInterrupt no handler catches ends the interpreter with a
\* traceback: status 1, or death by SIGINT (130 to a shell) since Python 3.8.
UncaughtStatuses == {1, 130}

\* A speak_message without its try/except: the backend's error reaches main.
AfterSpeak_Propagate(result) == IF result = "error" THEN "errsleep" ELSE "add"

\* lines 139-172 and 229-236: speak_message catches every Exception of the
\* backend (line 170), so main goes on to line 236 whatever the backend did
AfterSpeak(result) == "add"

\* A token taken from the response as soon as an item is done.
TokenAfterItem_Eager(tok, r) == r.nextPageToken

\* lines 221-236: the body of the for loop does not assign last_message_id
TokenAfterItem(tok, r) == tok

\* An assignment of line 238 that keeps the old token when there is no new one.
TokenAfterBatch_KeepOld(tok, r) ==
  IF r.nextPageToken = None THEN tok ELSE r.nextPageToken

\* line 238: last_message_id = response.get('nextPageToken'), whatever the
\* token was
TokenAfterBatch(tok, r) == NextToken(r)

\* A handler that starts over from the live position after an error.
TokenAfterError_Reset(tok) == None

\* lines 245-247: the handler does not assign last_message_id
TokenAfterError(tok) == tok

\* A handler that goes straight back to the fetch.
ErrSleepTime_None == SleepInterval - SleepInterval

\* line 247: time.sleep(5)
ErrSleepTime == SleepInterval

\* ------------------------------------------------------------------- Init
Init ==
  /\ pc = "start"
  /\ last_message_id = None
  /\ processed_messages = {}
  /\ response = NoResponse
  /\ idx = 1
  /\ spoken = << >>
  /\ exitStatus = -1
  /\ stopReason = None
  /\ resolveResult = None
  /\ interruptAt = None
  /\ called = FALSE
  /\ sentToken = None
  /\ seenAtFetch = {}
  /\ spokenAtFetch = 0
  /\ lastFetch = None
  /\ fails = 0
  /\ slept = 0
  /\ hint = 0
  /\ lastNext = None

\* ---------------------------------------------------------------- actions

\* lines 203-208: get_live_chat_id succeeds, or raises and main returns
Resolve ==
  /\ pc = "start"
  /\ \E v \in VideoResponses :
       LET res == get_live_chat_id(v)
           next == AfterResolve(res)
       IN /\ resolveResult' = res
          /\ pc' = next
          /\ exitStatus' = IF next = "done" THEN ReturnStatus ELSE exitStatus
          /\ stopReason' = IF next = "done" THEN "resolve" ELSE stopReason
  /\ UNCHANGED << progVars, spoken, interruptAt, called, sentToken, seenAtFetch,
                  spokenAtFetch, lastFetch, fails, slept, hint, lastNext >>

\* line 218 and the test of line 220: one call of the transport
Fetch ==
  /\ pc = "fetch"
  /\ \E outcome \in TransportOutcomes, r \in DictResponses :
       /\ outcome # "ok" => (fails < MaxFails /\ r.items = << >> /\ ~r.hasItems
                               /\ r.nextPageToken = None /\ r.hint = 0)
       /\ LET resp == get_chat_messages(outcome, r)
          IN /\ response' = resp
             /\ pc' = AfterFetch(outcome, resp)
             /\ last_message_id' =
                  IF HasItems(resp) THEN last_message_id
                  ELSE TokenAfterNoItems(last_message_id, resp)
             /\ hint' = resp.hint
       /\ lastFetch' = outcome
       /\ fails' = IF outcome = "ok" THEN 0 ELSE fails + 1
  /\ idx' = 1
  /\ called' = TRUE
  /\ sentToken' = PageToken(last_message_id)
  /\ seenAtFetch' = processed_messages
  /\ spokenAtFetch' = Len(spoken)
  /\ slept' = 0
  /\ UNCHANGED << processed_messages, spoken, exitStatus, stopReason,
                  resolveResult, interruptAt, lastNext >>

\* lines 221-234: the next item of the batch, up to the speak_message call
ProcessItem ==
  /\ pc = "loop"
  /\ idx <= Len(response.items)
  /\ LET item == ItemAt(response.items, idx)
     IN IF Seen(item.id, processed_messages)
        THEN pc' = "loop" /\ idx' = idx + 1
        ELSE /\ idx' = idx
             /\ pc' = IF ~item.wellFormed THEN "errsleep"
                      ELSE IF IsAllowed(item.author) THEN "speak"
                      ELSE "add"
  /\ UNCHANGED << last_message_id, processed_messages, response, spoken,
                  exitStatus, stopReason, resolveResult, interruptAt, called,
                  sentToken, seenAtFetch, spokenAtFetch, lastFetch, fails,
                  slept, hint, lastNext >>

\* lines 229, 232 and 139-172: speak_message, which catches its own errors
Speak ==
  /\ pc = "speak"
  /\ \E result \in SinkResults :
       LET item == ItemAt(response.items, idx)
       IN /\ spoken' = Append(spoken, [id |-> item.id, author |-> item.author,
                                       text |-> Utterance(item),
                                       result |-> result])
          /\ pc' = AfterSpeak(result)
  /\ UNCHANGED << progVars, exitStatus, stopReason, resolveResult, interruptAt,
                  called, sentToken, seenAtFetch, spokenAtFetch, lastFetch,
                  fails, slept, hint, lastNext >>

\* line 236
Add ==
  /\ pc = "add"
  /\ LET item == ItemAt(response.items, idx)
     IN processed_messages' = AddSeen(processed_messages, item.id)
  /\ last_message_id' = TokenAfterItem(last_message_id, response)
  /\ idx' = idx + 1
  /\ pc' = "loop"
  /\ UNCHANGED << response, spoken, exitStatus, stopReason,
                  resolveResult, interruptAt, called, sentToken, seenAtFetch,
                  spokenAtFetch, lastFetch, fails, slept, hint, lastNext >>

\* line 238, after the for loop
EndBatch ==
  /\ pc = "loop"
  /\ idx > Len(response.items)
  /\ last_message_id' = TokenAfterBatch(last_message_id, response)
  /\ lastNext' = response.nextPageToken
  /\ pc' = "sleep"
  /\ UNCHANGED << processed_messages, response, idx, spoken, exitStatus,
                  stopReason, resolveResult, interruptAt, called, sentToken,
                  seenAtFetch, spokenAtFetch, lastFetch, fails, slept, hint >>

\* The end of a poll cycle.  response and the loop position are dead from
\* here on (line 218 assigns response before anything reads it again), so the
\* model forgets them, together with the history of the cycle.
EndCycle ==
  /\ response' = NoResponse
  /\ idx' = 1
  /\ sentToken' = None
  /\ seenAtFetch' = {}
  /\ spokenAtFetch' = 0

\* line 240
Sleep ==
  /\ pc = "sleep"
  /\ slept' = slept + SleepTime(hint)
  /\ pc' = "fetch"
  /\ EndCycle
  /\ UNCHANGED << last_message_id, processed_messages, spoken, exitStatus,
                  stopReason, resolveResult, interruptAt, called, lastFetch,
                  fails, hint, lastNext >>

\* lines 245-247: the handler of an Exception raised in the loop body
ErrSleep ==
  /\ pc = "errsleep"
  /\ slept' = slept + ErrSleepTime
  /\ last_message_id' = TokenAfterError(last_message_id)
  /\ pc' = "fetch"
  /\ EndCycle
  /\ UNCHANGED << processed_messages, spoken, exitStatus,
                  stopReason, resolveResult, interruptAt, called, lastFetch,
                  fails, hint, lastNext >>

\* lines 242-244: Ctrl+C anywhere in the try body (the fetch, the for loop,
\* speak_message, the sleep of line 240) breaks out of the loop
Interrupt ==
  /\ pc \in {"fetch", "loop", "speak", "add", "sleep"}
  /\ interruptAt' = pc
  /\ pc' = "done"
  /\ exitStatus' = ReturnStatus
  /\ stopReason' = "interrupt"
  /\ UNCHANGED << progVars, spoken, resolveResult, called, sentToken,
                  seenAtFetch, spokenAtFetch, lastFetch, fails, slept, hint, lastNext >>

\* Ctrl+C outside the try body: in get_live_chat_id (lines 84, 206 catch
\* Exception only) or in the handler of lines 245-247, which the
\* except KeyboardInterrupt clause of the same try statement does not cover
UncaughtInterrupt ==
  /\ pc \in {"start", "errsleep"}
  /\ interruptAt' = pc
  /\ pc' = "done"
  /\ exitStatus' \in UncaughtStatuses
  /\ stopReason' = "interrupt"
  /\ UNCHANGED << progVars, spoken, resolveResult, called, sentToken,
                  seenAtFetch, spokenAtFetch, lastFetch, fails, slept, hint, lastNext >>

Next ==
  \/ Resolve
  \/ Fetch
  \/ ProcessItem
  \/ Speak
  \/ Add
  \/ EndBatch
  \/ Sleep
  \/ ErrSleep
  \/ Interrupt
  \/ UncaughtInterrupt

Spec == Init /\ [][Next]_vars

\* The runs without an operator interrupt.  main is one sequential thread:
\* as long as some step of it is possible it takes one, and the bound on
\* consecutive failures makes the transport answer again and again.
LiveNext ==
  \/ Resolve
  \/ Fetch
  \/ ProcessItem
  \/ Speak
  \/ Add
  \/ EndBatch
  \/ Sleep
  \/ ErrSleep

LiveSpec == Init /\ [][LiveNext]_vars /\ WF_vars(LiveNext)

\* ----------------------------------------------------------- properties

SpokenIds(log) == [i \in 1..Len(log) |-> log[i].id]

\* The speech calls made since this cycle's transport call.
SpokenThisCycle == SubSeq(spoken, spokenAtFetch + 1, Len(spoken))

\* The item the for loop is at.
CurrentItem == response.items[idx]

\* C11: a Speech Sink error neither stops the loop nor re-queues the message:
\* the message is forwarded once only, main goes on to line 236, and from
\* then on the id is in processed_messages; the handler of line 245 is
\* entered only for an item that could not be read.
C11_SinkErrorIsSwallowed ==
  /\ \A i \in 1..Len(spoken) :
       spoken[i].result = "error" =>
         /\ \A j \in 1..Len(spoken) : spoken[j].id = spoken[i].id => j = i
         /\ \/ spoken[i].id \in processed_messages
            \/ /\ i = Len(spoken)
               /\ pc = "add" \/ (pc = "done" /\ interruptAt = "add")
               /\ CurrentItem.id = spoken[i].id
  /\ pc = "errsleep" => ~CurrentItem.wellFormed

\* The sink failed on the first message of a batch and the second one was
\* spoken after it.
C11_Witness ==
  /\ pc = "sleep"
  /\ Len(SpokenThisCycle) = 2
  /\ SpokenThisCycle[1].result = "error"
  /\ SpokenThisCycle[1].id = response.items[1].id
  /\ SpokenThisCycle[2].id = response.items[2].id
  /\ {response.items[1].id, response.items[2].id} \subseteq processed_messages

\* The alias map of the claim, and the name it makes the sink say.
AliasMap == [a \in {"Fay Boyd"} |-> "Fay"]

SpokenName(author) ==
  IF author \in DOMAIN AliasMap THEN AliasMap[author] ELSE author

MessageOf(id) == CHOOSE m \in Messages : m.id = id

\* C12: every utterance is "{label} says: {text}" with the alias of the
\* author's display name as label where there is one; the message is matched
\* against the allow-list under its display name and recorded under its id.
C12_UtteranceText ==
  \A i \in 1..Len(spoken) :
    LET m == MessageOf(spoken[i].id)
    IN /\ spoken[i].text = SpokenName(m.author) \o " says: " \o m.text
       /\ m.author \in allowed_authors
       /\ \/ m.id \in processed_messages
          \/ i = Len(spoken) /\ pc \in {"add", "done"} /\ CurrentItem.id = m.id

\* "hi" of "Fay Boyd" was spoken as "Fay says: hi" and recorded as m1.
C12_Witness ==
  /\ "m1" \in processed_messages
  /\ \E i \in 1..Len(spoken) :
       spoken[i].id = "m1" /\ spoken[i].text = "Fay says: hi"

\* Some message of the current batch has not been processed to the end.
MidBatch ==
  /\ pc \in {"loop", "speak", "add", "errsleep", "done"}
  /\ HasItems(response)
  /\ idx <= Len(response.items)

\* C13: while a message of the current batch is still unprocessed, also
\* after an error or an interrupt in the middle of the batch, the stored token
\* is the one the batch was fetched with.
C13_TokenAfterWholeBatch ==
  MidBatch => last_message_id = sentToken

\* The first message of a batch is done, the second raised, and the batch
\* carries another token than the stored one.
C13_Witness ==
  /\ pc = "errsleep"
  /\ idx = 2
  /\ sentToken = "t1"
  /\ response.nextPageToken = "t2"
  /\ last_message_id = "t1"

\* C14 as stated: when the Speech Sink is invoked for a message, its id is
\* already in processed_messages.
C14_Original ==
  pc = "speak" => CurrentItem.id \in processed_messages

\* C14 as amended: the id is added after the Speech Sink call: it is not in
\* processed_messages when the sink is invoked nor while line 236 is still
\* to run, and it is once the loop has moved on.
C14_SeenAfterSpeak ==
  /\ pc \in {"speak", "add"} => CurrentItem.id \notin processed_messages
  /\ (pc = "loop" /\ idx > 1) => response.items[idx - 1].id \in processed_messages

\* The sink has been invoked for the current item and line 236 has not run.
C14_Witness ==
  /\ pc = "add"
  /\ Len(SpokenThisCycle) > 0
  /\ spoken[Len(spoken)].id = CurrentItem.id
  /\ CurrentItem.id \notin processed_messages

\* C15 as stated: every transport call but the first carries a token.
C15_Original ==
  [][(called /\ pc = "fetch" /\ pc' \in {"loop", "sleep"}) => sentToken' # None]_vars

\* C15 as amended: every transport call carries the nextPageToken of the
\* last batch that was processed to its end, and no token when there has been
\* no such batch or its response had no nextPageToken.
C15_CallCarriesLastNext ==
  (pc \in {"loop", "speak", "add", "errsleep"}
     \/ (pc = "sleep" /\ ~(response.ok /\ response.hasItems)))
    => sentToken = lastNext

\* A later call, one that failed, was made with the token of the last batch.
C15_Witness ==
  /\ pc = "sleep"
  /\ lastFetch = "transient"
  /\ sentToken = "t2"
  /\ lastNext = "t2"

\* The messages the allow-list lets through.
AllowedMessages == { m \in Messages : m.wellFormed /\ m.author \in allowed_authors }

InBatch(m) == \E i \in 1..Len(response.items) : response.items[i] = m

WasSpoken(m) == \E i \in 1..Len(spoken) : spoken[i].id = m.id

\* C16 as stated: without interrupts, every allowed message of a batch that
\* was fetched successfully is eventually forwarded to the Speech Sink.
C16_Original ==
  \A m \in AllowedMessages :
    (pc = "loop" /\ HasItems(response) /\ InBatch(m)) ~> WasSpoken(m)

\* C17: an Exception raised in the loop body is handled like a transient
\* failure: in the handler the token is the one the batch was fetched with
\* and processed_messages holds what it held at the fetch plus the messages
\* finished before the error; the handler sleeps the fixed interval and goes
\* back to the fetch with both unchanged, and only an interrupt ends the run.
C17_ErrorIsTransient ==
  [][pc = "errsleep" =>
       /\ last_message_id = sentToken
       /\ processed_messages =
            seenAtFetch \cup { response.items[i].id : i \in 1..(idx - 1) }
       /\ pc' \in {"errsleep", "fetch", "done"}
       /\ (pc' = "fetch" => /\ last_message_id' = last_message_id
                            /\ processed_messages' = processed_messages
                            /\ slept' = slept + SleepInterval)
       /\ (pc' = "done" => stopReason' = "interrupt")]_vars

\* The second message of a fresh batch raised after the first was finished.
C17_Witness ==
  /\ pc = "errsleep"
  /\ idx = 2
  /\ seenAtFetch = {}
  /\ processed_messages = {response.items[1].id}
  /\ sentToken = "t1"

\* C18: main sleeps the fixed interval exactly once between two transport
\* calls: nothing is slept from a call to the end of its cycle, and the
\* interval has been slept when the next call is due.
C18_OneSleepBetweenCalls ==
  /\ pc \in {"loop", "speak", "add", "sleep", "errsleep"} => slept = 0
  /\ (pc = "fetch" /\ called) => slept = SleepInterval

\* main is about to call again after a failed fetch.
C18_Witness ==
  /\ pc = "fetch"
  /\ lastFetch = "transient"
  /\ fails = 2
  /\ slept = SleepInterval

\* C19: a response with 'items' and without nextPageToken resets the stored
\* token to absent, the next call is made without a token, and a cycle
\* fetched without a token speaks nothing that was processed before.
C19_NoNextTokenResets ==
  [][
      /\ (pc = "sleep" /\ response.ok /\ response.hasItems
             /\ response.nextPageToken = None) =>
          (/\ last_message_id = None
           /\ (pc' = "fetch" => last_message_id' = None))
      /\ (pc = "fetch" /\ last_message_id = None /\ pc' \in {"loop", "sleep"}) =>
          sentToken' = None
      /\ sentToken = None =>
          \A i \in 1..Len(SpokenThisCycle) : SpokenThisCycle[i].id \notin seenAtFetch
    ]_vars

\* A batch fetched with t1 came without nextPageToken: the token is gone.
C19_Witness ==
  /\ pc = "sleep"
  /\ response.ok /\ response.hasItems
  /\ Len(response.items) > 0
  /\ response.nextPageToken = None
  /\ sentToken = "t1"
  /\ last_message_id = None

\* C20: a cycle whose fetch failed or whose response has no 'items' leaves
\* the token and processed_messages as they were and speaks nothing, whatever
\* nextPageToken the response carries.
C20_NoItemsNoEffect ==
  (pc = "sleep" /\ ~(response.ok /\ response.hasItems)) =>
    /\ last_message_id = sentToken
    /\ processed_messages = seenAtFetch
    /\ Len(spoken) = spokenAtFetch

\* A response without 'items' that carries another token than the stored one.
C20_Witness ==
  /\ pc = "sleep"
  /\ response.ok /\ ~response.hasItems
  /\ response.nextPageToken = "t2"
  /\ sentToken = "t1"
  /\ last_message_id = "t1"

\* C1: within one run the Speech Sink is invoked at most once per message
\* id, whatever the transport delivers or re-delivers.
C1_SpokenAtMostOnce ==
  \A i, j \in 1..Len(spoken) : spoken[i].id = spoken[j].id => i = j

\* A message spoken in an earlier cycle was delivered again, on a poll made
\* without a token, and the loop has passed it.
C1_Witness ==
  /\ pc = "loop"
  /\ idx > 1
  /\ sentToken = None
  /\ response.items[idx - 1].id \in seenAtFetch
  /\ \E i \in 1..spokenAtFetch : spoken[i].id = response.items[idx - 1].id

C3_Original ==
  (pc = "sleep" /\ HasItems(response) /\ Len(response.items) > 0) =>
    (last_message_id = response.nextPageToken /\ last_message_id # None)

\* C3 as amended: after a non-empty batch the stored token is the
\* nextPageToken of that batch, which is absent when the response has none.
C3_TokenIsNextToken ==
  (pc = "sleep" /\ HasItems(response) /\ Len(response.items) > 0) =>
    last_message_id = response.nextPageToken

\* A batch fetched with t1 that re-delivers a processed message has moved
\* the token on to t2.
C3_Witness ==
  /\ pc = "sleep"
  /\ HasItems(response)
  /\ sentToken = "t1"
  /\ last_message_id = "t2"
  /\ \E i \in 1..Len(response.items) : response.items[i].id \in seenAtFetch

\* C4 as stated: an interrupt while fetching, processing, sleeping or backing
\* off stops the loop and the process exits with status 0.
C4_Original ==
  (stopReason = "interrupt" /\ interruptAt # "start") =>
    (pc = "done" /\ exitStatus = 0)

\* C5: only messages whose author is an exact member of the allow-list are
\* spoken, and every message the loop has finished with is in
\* processed_messages, spoken or not.
C5_FilterAndSeen ==
  /\ \A i \in 1..Len(spoken) : spoken[i].author \in allowed_authors
  /\ (pc \in {"loop", "speak", "add", "sleep", "errsleep"} /\ HasItems(response)) =>
       \A i \in 1..(idx - 1) : response.items[i].id \in processed_messages

\* A batch with an allowed author and one whose name differs by case: the
\* first was spoken, the second was not, both are marked.
C5_Witness ==
  /\ pc = "sleep"
  /\ {response.items[i].id : i \in 1..Len(response.items)} = {"m1", "m3"}
  /\ seenAtFetch = {}
  /\ processed_messages = {"m1", "m3"}
  /\ SpokenIds(spoken) = << "m1" >>

\* What a batch has to make the sink say: the allowed messages among its
\* first n that were neither processed before nor earlier in the batch.
RECURSIVE ExpectedSpeech(_, _, _)
ExpectedSpeech(items, n, S) ==
  IF n = 0 THEN << >>
  ELSE LET pre == ExpectedSpeech(items, n - 1, S)
           earlier == { items[k].id : k \in 1..(n - 1) }
       IN IF items[n].id \notin (S \cup earlier)
             /\ items[n].author \in allowed_authors
          THEN Append(pre, items[n].id)
          ELSE pre

\* C6: the speech calls of a batch are its allowed, not yet processed
\* messages in the order the transport returned them.
C6_BatchOrder ==
  (pc \in {"loop", "sleep", "errsleep"} /\ HasItems(response)) =>
    SpokenIds(SpokenThisCycle) = ExpectedSpeech(response.items, idx - 1, seenAtFetch)

\* A batch of two different messages, both spoken.
C6_Witness ==
  /\ pc = "sleep"
  /\ Len(SpokenThisCycle) = 2
  /\ SpokenThisCycle[1].id # SpokenThisCycle[2].id

\* C7: a transient fetch failure does not stop the loop and leaves
\* processed_messages and the token as they were at the call.
C7_FailedFetchKeepsState ==
  lastFetch = "transient" =>
    /\ pc \in {"sleep", "fetch", "done"}
    /\ pc = "done" => stopReason = "interrupt"
    /\ pc = "sleep" => /\ last_message_id = sentToken
                       /\ processed_messages = seenAtFetch
                       /\ Len(spoken) = spokenAtFetch

\* MaxFails failures in a row, with a token and processed messages to lose.
C7_Witness ==
  /\ lastFetch = "transient"
  /\ fails = MaxFails
  /\ pc = "sleep"
  /\ last_message_id = "t1"
  /\ processed_messages # {}

\* C8 as stated: the next transport call comes no sooner than the interval
\* the server supplied with the batch.
C8_Original ==
  (pc = "fetch" /\ called /\ hint > 0) => slept >= hint

\* C8 as amended: the hint is ignored; the sleep before the next transport
\* call is the fixed interval whatever the hint.
C8_HintIgnored ==
  (pc = "fetch" /\ called /\ hint > 0) => slept = SleepInterval

\* A hint longer than the fixed interval, and main about to call again.
C8_Witness ==
  pc = "fetch" /\ called /\ hint > SleepInterval /\ slept = SleepInterval

C10_ResolverFailureStops ==
  resolveResult \in ResolveErrors =>
    (pc = "done" /\ ~called /\ spoken = << >>)

\* The stream has no active chat.
C10_Witness ==
  resolveResult = "ChatNotActive" /\ pc = "done"

====
